---- MODULE Spec2Model ----
(***************************************************************************)
(* The resilient fetch layer of calibre-web-automated-downloader           *)
(* (src/network.rs): html_get_page, html_get_page_cf and download_url,     *)
(* under the process-wide CONFIG of src/config.rs.                         *)
(*                                                                         *)
(* A call is one invocation of one of the three async functions.  Each     *)
(* action is the code that runs between two suspension points (.await) of  *)
(* such a call.  Strings that the code inspects or builds (URLs) are       *)
(* sequences of one-character strings.                                     *)
(***************************************************************************)
EXTENDS Integers, Sequences, FiniteSets, TLC

VARIABLES
    CONFIG,     \* config.rs CONFIG: the fields network.rs reads
    pc,         \* per call: the suspension point the call is at
    op,         \* per call: the function that was called
    arg,        \* per call: the url argument of the called function
    url,        \* per call: the url parameter of html_get_page / download_url
    attempt,    \* per call: the loop variable of html_get_page
    response,   \* per call: the response held between send() and the body read
    result,     \* per call: the returned Result
    events,     \* per call: the send() and sleep() calls it made, in order
    outcomes,   \* per call: what the target did on each finished attempt, in order
    resolver    \* the call of get_absolute_url: its arguments and what it returned

vars == <<CONFIG, pc, op, arg, url, attempt, response, result, events, outcomes, resolver>>

----------------------------------------------------------------------------
(* Bounds of the model                                                      *)

\* CONFIG.max_retry ranges over 0..MaxRetry
MaxRetry == 3

----------------------------------------------------------------------------
(* Strings                                                                  *)

Str_http == <<"h", "t", "t", "p">>

Str_scheme_sep == <<":", "/", "/">>

\* the literal between the two placeholders of the format! of html_get_page_cf
Str_html_url == <<"/", "h", "t", "m", "l", "?", "u", "r", "l", "=">>

\* the default of CLOUDFLARE_PROXY_URL
DefaultCloudflareProxy ==
    Str_http \o Str_scheme_sep
      \o <<"l", "o", "c", "a", "l", "h", "o", "s", "t", ":", "8", "0", "0", "0">>

\* "http://": the deliberately broken URL of test_html_get_page_invalid_url
UrlInvalid == Str_http \o Str_scheme_sep

\* "http://a/p": a URL without query or fragment
UrlPlain == Str_http \o Str_scheme_sep \o <<"a", "/", "p">>

\* "http://a/?q=1&r#f": a URL with the reserved characters ? = & #
UrlQuery == Str_http \o Str_scheme_sep \o <<"a", "/", "?", "q", "=", "1", "&", "r", "#", "f">>

\* the URLs callers pass
TargetUrls == {UrlInvalid, UrlPlain, UrlQuery}

StartsWith(s, p) == Len(s) >= Len(p) /\ SubSeq(s, 1, Len(p)) = p

----------------------------------------------------------------------------
(* The environment                                                          *)

\* the identifiers of the calls; MainCall is the one call of Spec
Calls == {"c1", "c2"}

MainCall == "c1"

\* status codes a target answers with
Statuses == {200, 204, 404, 500}

\* response bodies a target answers with
Bodies == {"page1", "page2"}

\* values of the retry wait, in seconds
RetryWaits == {1, 5}

NoResponse == [status |-> 0, body |-> ""]

NoResult == [kind |-> "none", attempts |-> 0, code |-> 0, cause |-> "", body |-> "", url |-> <<>>]

----------------------------------------------------------------------------
(* Values the functions return                                              *)

\* Ok(body)
OkResult(body) ==
    [kind |-> "Ok", attempts |-> 0, code |-> 0, cause |-> "", body |-> body, url |-> <<>>]

\* mutant of NetworkError: the attempt index is reported in place of attempt + 1
NetworkError_ZeroBased(n, cause) ==
    [kind |-> "Network", attempts |-> n - 1, code |-> 0, cause |-> cause, body |-> "", url |-> <<>>]

\* "Network error after {} attempts: {}"
NetworkError(n, cause) ==
    [kind |-> "Network", attempts |-> n, code |-> 0, cause |-> cause, body |-> "", url |-> <<>>]

\* "Server returned non-success status {} after {} attempts"
StatusError(code, n) ==
    [kind |-> "Status", attempts |-> n, code |-> code, cause |-> "", body |-> "", url |-> <<>>]

\* "Failed to read response body after {} attempts: {}"
BodyReadError(n) ==
    [kind |-> "BodyRead", attempts |-> n, code |-> 0, cause |-> "body", body |-> "", url |-> <<>>]

\* "Exhausted all retries ({} attempts) for URL: {}"
RetriesExhausted(n, u) ==
    [kind |-> "RetriesExhausted", attempts |-> n, code |-> 0, cause |-> "", body |-> "", url |-> u]

\* the reqwest::Error that `?` converts and returns from download_url
ReqwestError(cause) ==
    [kind |-> "Reqwest", attempts |-> 0, code |-> 0, cause |-> cause, body |-> "", url |-> <<>>]

\* what the target did on one attempt: class "send" (no response), "status" (a
\* response whose body was not read), "body" (a response whose body read
\* failed) or "ok" (a response whose body was read); code is the status
Outcome(class, code, body) == [class |-> class, code |-> code, body |-> body]

\* client.get(&url)...send() was called with u
SendEvent(u) == [ev |-> "send", url |-> u, secs |-> 0]

\* tokio::time::sleep(Duration::from_secs(secs)) was called
SleepEvent(secs) == [ev |-> "sleep", url |-> <<>>, secs |-> secs]

----------------------------------------------------------------------------
(* Helpers of the operations                                                *)

\* client.get(&url): the URL parses (IntoUrl) when it is "http://" followed by a
\* non-empty host; otherwise send() yields a builder error without any I/O
UrlParses(u) ==
    /\ StartsWith(u, Str_http \o Str_scheme_sep)
    /\ Len(u) > Len(Str_http \o Str_scheme_sep)
    /\ u[Len(Str_http \o Str_scheme_sep) + 1] \notin {"/", "?", "#"}

\* the cause of a failed send(): a URL that does not parse fails in the builder
SendErrorCause(u) == IF UrlParses(u) THEN "connect" ELSE "builder"

\* mutant of IsSuccess: the upper end of the 2xx range is not checked
IsSuccess_NoUpperBound(status) == status >= 200

\* response.status().is_success()
IsSuccess(status) == status >= 200 /\ status <= 299

\* mutant of IsLastAttempt: > in place of >=
IsLastAttempt_OffByOne(a) == a + 1 > CONFIG.max_retry

\* attempt + 1 >= CONFIG.max_retry
IsLastAttempt(a) == a + 1 >= CONFIG.max_retry

\* Duration::from_secs(CONFIG.retry_wait_duration)
Delay == CONFIG.retry_wait_duration

\* format!("{}/html?url={}", CONFIG.cloudflare_proxy, url)
CfUrl(u) == CONFIG.cloudflare_proxy \o Str_html_url \o u

\* mutant of CfTarget: the two branches swapped
CfTarget_Inverted(u) == IF CONFIG.use_cf_bypass THEN CfUrl(u) ELSE u

\* the URL html_get_page_cf hands to html_get_page
CfTarget(u) == IF CONFIG.use_cf_bypass THEN u ELSE CfUrl(u)

\* mutant of Iterate: the loop counter is one static shared by all calls
Iterate_SharedCounter(c, a, u) ==
    IF a < CONFIG.max_retry
    THEN /\ attempt' = [d \in Calls |-> a]
         /\ events' = [events EXCEPT ![c] = Append(@, SendEvent(u))]
         /\ pc' = [pc EXCEPT ![c] = "send"]
         /\ UNCHANGED result
    ELSE /\ result' = [result EXCEPT ![c] = RetriesExhausted(CONFIG.max_retry, u)]
         /\ pc' = [pc EXCEPT ![c] = "done"]
         /\ UNCHANGED <<attempt, events>>

\* `for attempt in 0..CONFIG.max_retry` taking its next value a: the body starts
\* and sends the request, or the range is exhausted and the function returns
\* the error after the loop
Iterate(c, a, u) ==
    IF a < CONFIG.max_retry
    THEN /\ attempt' = [attempt EXCEPT ![c] = a]
         /\ events' = [events EXCEPT ![c] = Append(@, SendEvent(u))]
         /\ pc' = [pc EXCEPT ![c] = "send"]
         /\ UNCHANGED result
    ELSE /\ result' = [result EXCEPT ![c] = RetriesExhausted(CONFIG.max_retry, u)]
         /\ pc' = [pc EXCEPT ![c] = "done"]
         /\ UNCHANGED <<attempt, events>>

\* mutant of RetryOrReturn: each failure class has its own budget of max_retry
\* attempts, the counter holding the earlier failures of the class of `out`
RetryOrReturn_PerClass(c, out, err) ==
    LET k == Len(SelectSeq(outcomes[c], LAMBDA o : o.class = out.class))
    IN  /\ outcomes' = [outcomes EXCEPT ![c] = Append(@, out)]
        /\ response' = [response EXCEPT ![c] = NoResponse]
        /\ IF IsLastAttempt(k)
           THEN /\ result' = [result EXCEPT ![c] = err]
                /\ pc' = [pc EXCEPT ![c] = "done"]
                /\ UNCHANGED <<events, attempt>>
           ELSE /\ events' = [events EXCEPT ![c] = Append(@, SleepEvent(Delay))]
                /\ attempt' = [attempt EXCEPT ![c] = k]
                /\ pc' = [pc EXCEPT ![c] = "sleep"]
                /\ UNCHANGED result
        /\ UNCHANGED <<CONFIG, op, arg, url>>

\* mutant of RetryOrReturn: a failed attempt that is not the last goes on to the
\* next attempt without sleeping
RetryOrReturn_NoSleep(c, out, err) ==
    /\ outcomes' = [outcomes EXCEPT ![c] = Append(@, out)]
    /\ response' = [response EXCEPT ![c] = NoResponse]
    /\ IF IsLastAttempt(attempt[c])
       THEN /\ result' = [result EXCEPT ![c] = err]
            /\ pc' = [pc EXCEPT ![c] = "done"]
            /\ UNCHANGED <<events, attempt>>
       ELSE /\ events' = [events EXCEPT ![c] = Append(@, SendEvent(url[c]))]
            /\ attempt' = [attempt EXCEPT ![c] = @ + 1]
            /\ UNCHANGED <<pc, result>>
    /\ UNCHANGED <<CONFIG, op, arg, url>>

\* mutant of RetryOrReturn: the sleep grows with the attempt number
RetryOrReturn_Backoff(c, out, err) ==
    /\ outcomes' = [outcomes EXCEPT ![c] = Append(@, out)]
    /\ response' = [response EXCEPT ![c] = NoResponse]
    /\ IF IsLastAttempt(attempt[c])
       THEN /\ result' = [result EXCEPT ![c] = err]
            /\ pc' = [pc EXCEPT ![c] = "done"]
            /\ UNCHANGED events
       ELSE /\ events' = [events EXCEPT ![c] =
                             Append(@, SleepEvent(Delay * (attempt[c] + 1)))]
            /\ pc' = [pc EXCEPT ![c] = "sleep"]
            /\ UNCHANGED result
    /\ UNCHANGED <<CONFIG, op, arg, url, attempt>>

\* the rule of the three failure branches: the last attempt returns err, any
\* other attempt starts the sleep before the next one
RetryOrReturn(c, out, err) ==
    /\ outcomes' = [outcomes EXCEPT ![c] = Append(@, out)]
    /\ response' = [response EXCEPT ![c] = NoResponse]
    /\ IF IsLastAttempt(attempt[c])
       THEN /\ result' = [result EXCEPT ![c] = err]
            /\ pc' = [pc EXCEPT ![c] = "done"]
            /\ UNCHANGED events
       ELSE /\ events' = [events EXCEPT ![c] = Append(@, SleepEvent(Delay))]
            /\ pc' = [pc EXCEPT ![c] = "sleep"]
            /\ UNCHANGED result
    /\ UNCHANGED <<CONFIG, op, arg, url, attempt>>

----------------------------------------------------------------------------
(* html_get_page                                                            *)

\* the call html_get_page(u), up to the first send().await
Call_html_get_page(c, u) ==
    /\ pc[c] = "idle"
    /\ op' = [op EXCEPT ![c] = "html_get_page"]
    /\ arg' = [arg EXCEPT ![c] = u]
    /\ url' = [url EXCEPT ![c] = u]
    /\ Iterate(c, 0, u)
    /\ UNCHANGED <<CONFIG, response, outcomes>>

\* mutant of SendErr: a builder error is returned at once, without retry
SendErr_FailFast(c) ==
    /\ pc[c] = "send"
    /\ IF SendErrorCause(url[c]) = "builder"
       THEN /\ outcomes' = [outcomes EXCEPT ![c] = Append(@, Outcome("send", 0, ""))]
            /\ result' = [result EXCEPT ![c] = NetworkError(attempt[c] + 1, "builder")]
            /\ pc' = [pc EXCEPT ![c] = "done"]
            /\ UNCHANGED <<CONFIG, op, arg, url, attempt, response, events>>
       ELSE RetryOrReturn(c, Outcome("send", 0, ""),
                          NetworkError(attempt[c] + 1, SendErrorCause(url[c])))

\* send().await is Err(e)
SendErr(c) ==
    /\ pc[c] = "send"
    /\ RetryOrReturn(c, Outcome("send", 0, ""),
                     NetworkError(attempt[c] + 1, SendErrorCause(url[c])))

\* mutant of StatusErr: a status that is not 2xx is reported as a Network error
StatusErr_AsNetwork(c, status) ==
    /\ pc[c] = "send"
    /\ UrlParses(url[c])
    /\ ~IsSuccess(status)
    /\ RetryOrReturn(c, Outcome("status", status, ""),
                     NetworkError(attempt[c] + 1, "status"))

\* send().await is Ok(resp) with a status that is not 2xx
StatusErr(c, status) ==
    /\ pc[c] = "send"
    /\ UrlParses(url[c])
    /\ ~IsSuccess(status)
    /\ RetryOrReturn(c, Outcome("status", status, ""),
                     StatusError(status, attempt[c] + 1))

\* send().await is Ok(resp) with a 2xx status: the body read starts
SendOk(c, status, body) ==
    /\ pc[c] = "send"
    /\ UrlParses(url[c])
    /\ IsSuccess(status)
    /\ response' = [response EXCEPT ![c] = [status |-> status, body |-> body]]
    /\ pc' = [pc EXCEPT ![c] = "text"]
    /\ UNCHANGED <<CONFIG, op, arg, url, attempt, result, events, outcomes>>

\* mutant of TextOk: the success branch leaves the loop (break) without returning
TextOk_Break(c) ==
    /\ pc[c] = "text"
    /\ outcomes' = [outcomes EXCEPT ![c] =
                       Append(@, Outcome("ok", response[c].status, response[c].body))]
    /\ result' = [result EXCEPT ![c] = RetriesExhausted(CONFIG.max_retry, url[c])]
    /\ response' = [response EXCEPT ![c] = NoResponse]
    /\ pc' = [pc EXCEPT ![c] = "done"]
    /\ UNCHANGED <<CONFIG, op, arg, url, attempt, events>>

\* mutant of TextOk: the success branch does not return, the loop goes on
TextOk_Continue(c) ==
    /\ pc[c] = "text"
    /\ outcomes' = [outcomes EXCEPT ![c] =
                       Append(@, Outcome("ok", response[c].status, response[c].body))]
    /\ response' = [response EXCEPT ![c] = NoResponse]
    /\ Iterate(c, attempt[c] + 1, url[c])
    /\ UNCHANGED <<CONFIG, op, arg, url>>

\* response.text().await is Ok(body)
TextOk(c) ==
    /\ pc[c] = "text"
    /\ outcomes' = [outcomes EXCEPT ![c] =
                       Append(@, Outcome("ok", response[c].status, response[c].body))]
    /\ result' = [result EXCEPT ![c] = OkResult(response[c].body)]
    /\ response' = [response EXCEPT ![c] = NoResponse]
    /\ pc' = [pc EXCEPT ![c] = "done"]
    /\ UNCHANGED <<CONFIG, op, arg, url, attempt, events>>

\* mutant of TextErr: the branch sleeps without the last-attempt check
TextErr_AlwaysSleeps(c) ==
    /\ pc[c] = "text"
    /\ outcomes' = [outcomes EXCEPT ![c] = Append(@, Outcome("body", response[c].status, ""))]
    /\ response' = [response EXCEPT ![c] = NoResponse]
    /\ events' = [events EXCEPT ![c] = Append(@, SleepEvent(Delay))]
    /\ pc' = [pc EXCEPT ![c] = "sleep"]
    /\ UNCHANGED <<CONFIG, op, arg, url, attempt, result>>

\* response.text().await is Err(e)
TextErr(c) ==
    /\ pc[c] = "text"
    /\ RetryOrReturn(c, Outcome("body", response[c].status, ""),
                     BodyReadError(attempt[c] + 1))

\* tokio::time::sleep(delay).await completes: the loop takes its next value
SleepDone(c) ==
    /\ pc[c] = "sleep"
    /\ Iterate(c, attempt[c] + 1, url[c])
    /\ UNCHANGED <<CONFIG, op, arg, url, response, outcomes>>

----------------------------------------------------------------------------
(* html_get_page_cf                                                         *)

\* mutant of Call_html_get_page_cf: the wrapper requests the original URL itself
\* before it delegates
Call_html_get_page_cf_Probe(c, u) ==
    /\ pc[c] = "idle"
    /\ op' = [op EXCEPT ![c] = "html_get_page_cf"]
    /\ arg' = [arg EXCEPT ![c] = u]
    /\ url' = [url EXCEPT ![c] = CfTarget(u)]
    /\ IF 0 < CONFIG.max_retry
       THEN /\ attempt' = [attempt EXCEPT ![c] = 0]
            /\ events' = [events EXCEPT ![c] = <<SendEvent(u), SendEvent(CfTarget(u))>>]
            /\ pc' = [pc EXCEPT ![c] = "send"]
            /\ UNCHANGED result
       ELSE /\ result' = [result EXCEPT ![c] = RetriesExhausted(CONFIG.max_retry, CfTarget(u))]
            /\ pc' = [pc EXCEPT ![c] = "done"]
            /\ UNCHANGED <<attempt, events>>
    /\ UNCHANGED <<CONFIG, response, outcomes>>

\* the call html_get_page_cf(u), up to the first send().await of html_get_page
Call_html_get_page_cf(c, u) ==
    /\ pc[c] = "idle"
    /\ op' = [op EXCEPT ![c] = "html_get_page_cf"]
    /\ arg' = [arg EXCEPT ![c] = u]
    /\ url' = [url EXCEPT ![c] = CfTarget(u)]
    /\ Iterate(c, 0, CfTarget(u))
    /\ UNCHANGED <<CONFIG, response, outcomes>>

----------------------------------------------------------------------------
(* download_url                                                             *)

\* the call download_url(u), up to send().await
Call_download_url(c, u) ==
    /\ pc[c] = "idle"
    /\ op' = [op EXCEPT ![c] = "download_url"]
    /\ arg' = [arg EXCEPT ![c] = u]
    /\ url' = [url EXCEPT ![c] = u]
    /\ events' = [events EXCEPT ![c] = Append(@, SendEvent(u))]
    /\ pc' = [pc EXCEPT ![c] = "dl_send"]
    /\ UNCHANGED <<CONFIG, attempt, response, result, outcomes>>

\* mutant of DownloadSendErr: a failed send is retried up to max_retry times
DownloadSendErr_Retries(c) ==
    /\ pc[c] = "dl_send"
    /\ outcomes' = [outcomes EXCEPT ![c] = Append(@, Outcome("send", 0, ""))]
    /\ IF Len(events[c]) >= CONFIG.max_retry
       THEN /\ result' = [result EXCEPT ![c] = ReqwestError(SendErrorCause(url[c]))]
            /\ pc' = [pc EXCEPT ![c] = "done"]
            /\ UNCHANGED events
       ELSE /\ events' = [events EXCEPT ![c] = Append(@, SendEvent(url[c]))]
            /\ UNCHANGED <<pc, result>>
    /\ UNCHANGED <<CONFIG, op, arg, url, attempt, response>>

\* send().await? is Err(e): `?` returns the error
DownloadSendErr(c) ==
    /\ pc[c] = "dl_send"
    /\ outcomes' = [outcomes EXCEPT ![c] = Append(@, Outcome("send", 0, ""))]
    /\ result' = [result EXCEPT ![c] = ReqwestError(SendErrorCause(url[c]))]
    /\ pc' = [pc EXCEPT ![c] = "done"]
    /\ UNCHANGED <<CONFIG, op, arg, url, attempt, response, events>>

\* mutant of DownloadSendOk: a status that is not 2xx is returned as an error
DownloadSendOk_ChecksStatus(c, status, body) ==
    /\ pc[c] = "dl_send"
    /\ UrlParses(url[c])
    /\ IF IsSuccess(status)
       THEN /\ response' = [response EXCEPT ![c] = [status |-> status, body |-> body]]
            /\ pc' = [pc EXCEPT ![c] = "dl_bytes"]
            /\ UNCHANGED <<result, outcomes>>
       ELSE /\ outcomes' = [outcomes EXCEPT ![c] = Append(@, Outcome("status", status, ""))]
            /\ result' = [result EXCEPT ![c] = StatusError(status, 1)]
            /\ pc' = [pc EXCEPT ![c] = "done"]
            /\ UNCHANGED response
    /\ UNCHANGED <<CONFIG, op, arg, url, attempt, events>>

\* send().await? is Ok(response), whatever its status: the body read starts
DownloadSendOk(c, status, body) ==
    /\ pc[c] = "dl_send"
    /\ UrlParses(url[c])
    /\ response' = [response EXCEPT ![c] = [status |-> status, body |-> body]]
    /\ pc' = [pc EXCEPT ![c] = "dl_bytes"]
    /\ UNCHANGED <<CONFIG, op, arg, url, attempt, result, events, outcomes>>

\* response.bytes().await? is Ok(bytes)
DownloadBytesOk(c) ==
    /\ pc[c] = "dl_bytes"
    /\ outcomes' = [outcomes EXCEPT ![c] =
                       Append(@, Outcome("ok", response[c].status, response[c].body))]
    /\ result' = [result EXCEPT ![c] = OkResult(response[c].body)]
    /\ response' = [response EXCEPT ![c] = NoResponse]
    /\ pc' = [pc EXCEPT ![c] = "done"]
    /\ UNCHANGED <<CONFIG, op, arg, url, attempt, events>>

\* response.bytes().await? is Err(e): `?` returns the error
DownloadBytesErr(c) ==
    /\ pc[c] = "dl_bytes"
    /\ outcomes' = [outcomes EXCEPT ![c] = Append(@, Outcome("body", response[c].status, ""))]
    /\ result' = [result EXCEPT ![c] = ReqwestError("body")]
    /\ response' = [response EXCEPT ![c] = NoResponse]
    /\ pc' = [pc EXCEPT ![c] = "done"]
    /\ UNCHANGED <<CONFIG, op, arg, url, attempt, events>>

----------------------------------------------------------------------------
(* URLs: url::Url as get_absolute_url uses it                               *)
(*                                                                          *)
(* The strings of this part are over letters, digits, ':', '/' and ' '; dot *)
(* segments, queries, fragments, credentials and escapes do not occur.      *)

Letters == {"a", "b", "c", "d", "e", "f", "g", "h", "i", "j", "k", "l", "m", "n", "o", "p", "q", "r", "s", "t", "u", "v", "w", "x", "y", "z"}

Digits == {"0", "1", "2", "3", "4", "5", "6", "7", "8", "9"}

\* the schemes url::Url treats as special (file apart)
SpecialSchemes == {<<"h", "t", "t", "p">>, <<"h", "t", "t", "p", "s">>, <<"f", "t", "p">>, <<"w", "s">>, <<"w", "s", "s">>}

\* the port a special scheme implies, which is not kept in the URL
DefaultPort(scheme) ==
    CASE scheme \in {<<"h", "t", "t", "p">>, <<"w", "s">>} -> <<"8", "0">>
      [] scheme \in {<<"h", "t", "t", "p", "s">>, <<"w", "s", "s">>} -> <<"4", "4", "3">>
      [] scheme = <<"f", "t", "p">> -> <<"2", "1">>
      [] OTHER -> <<>>

\* str::trim_start, str::trim_end, str::trim
RECURSIVE TrimStart(_)
TrimStart(s) == IF s # <<>> /\ Head(s) = " " THEN TrimStart(Tail(s)) ELSE s

RECURSIVE TrimEnd(_)
TrimEnd(s) == IF s # <<>> /\ s[Len(s)] = " " THEN TrimEnd(SubSeq(s, 1, Len(s) - 1)) ELSE s

Trim(s) == TrimEnd(TrimStart(s))

\* the first index at or after i of an element of s that is in set; Len(s) + 1 if none
RECURSIVE Find(_, _, _)
Find(s, set, i) ==
    IF i > Len(s) THEN Len(s) + 1
    ELSE IF s[i] \in set THEN i ELSE Find(s, set, i + 1)

\* the last index of "/" in s; 0 if none
RECURSIVE LastSlash(_)
LastSlash(s) ==
    IF s = <<>> THEN 0
    ELSE IF s[Len(s)] = "/" THEN Len(s) ELSE LastSlash(SubSeq(s, 1, Len(s) - 1))

\* s without its leading slashes
RECURSIVE StripSlashes(_)
StripSlashes(s) == IF s # <<>> /\ Head(s) = "/" THEN StripSlashes(Tail(s)) ELSE s

\* the index of the ':' that ends a scheme at the start of s; 0 if s has no scheme
SchemeEnd(s) ==
    LET k == Find(s, {":"}, 1)
    IN  IF /\ k > 1 /\ k <= Len(s)
           /\ s[1] \in Letters
           /\ \A i \in 1..(k - 1) : s[i] \in Letters \cup Digits
        THEN k
        ELSE 0

\* Err(ParseError)
NoUrl(err) ==
    [ok |-> FALSE, err |-> err, scheme |-> <<>>, has_host |-> FALSE, host |-> <<>>,
     port |-> <<>>, path |-> <<>>, opaque |-> FALSE]

\* a Url: scheme(), host_str() (has_host: it is Some), port(), path(),
\* cannot_be_a_base() (opaque)
AUrl(scheme, has_host, host, port, path, opaque) ==
    [ok |-> TRUE, err |-> "", scheme |-> scheme, has_host |-> has_host, host |-> host,
     port |-> port, path |-> path, opaque |-> opaque]

\* the parser after the slashes of an authority: "host[:port]", then the path
ParseAuthority(scheme, s) ==
    LET e == Find(s, {"/"}, 1)
        auth == SubSeq(s, 1, e - 1)
        rest == SubSeq(s, e, Len(s))
        k == Find(auth, {":"}, 1)
        host == SubSeq(auth, 1, k - 1)
        port == SubSeq(auth, k + 1, Len(auth))
        special == scheme \in SpecialSchemes
    IN  IF host = <<>> /\ special THEN NoUrl("EmptyHost")
        ELSE IF \E i \in 1..Len(host) : host[i] \notin Letters \cup Digits
             THEN NoUrl("InvalidDomainCharacter")
        ELSE IF \E i \in 1..Len(port) : port[i] \notin Digits THEN NoUrl("InvalidPort")
        ELSE AUrl(scheme, host # <<>>, host,
                  IF port = DefaultPort(scheme) THEN <<>> ELSE port,
                  IF rest = <<>> /\ special THEN <<"/">> ELSE rest,
                  FALSE)

\* Url::parse(s)
UrlParse(s) ==
    LET t == Trim(s)
        k == SchemeEnd(t)
        scheme == SubSeq(t, 1, k - 1)
        rest == SubSeq(t, k + 1, Len(t))
    IN  IF k = 0 THEN NoUrl("RelativeUrlWithoutBase")
        ELSE IF scheme \in SpecialSchemes THEN ParseAuthority(scheme, StripSlashes(rest))
        ELSE IF StartsWith(rest, <<"/", "/">>)
             THEN ParseAuthority(scheme, SubSeq(rest, 3, Len(rest)))
        ELSE IF StartsWith(rest, <<"/">>)
             THEN AUrl(scheme, FALSE, <<>>, <<>>, rest, FALSE)
        ELSE AUrl(scheme, FALSE, <<>>, <<>>, rest, TRUE)

\* the reference r, which has no scheme, resolved against the Url b
JoinRelative(b, r) ==
    IF b.opaque THEN NoUrl("RelativeUrlWithCannotBeABaseBase")
    ELSE IF StartsWith(r, <<"/", "/">>)
         THEN IF b.scheme \in SpecialSchemes
              THEN ParseAuthority(b.scheme, StripSlashes(r))
              ELSE ParseAuthority(b.scheme, SubSeq(r, 3, Len(r)))
    ELSE IF StartsWith(r, <<"/">>) THEN [b EXCEPT !.path = r]
    ELSE IF r = <<>> THEN b
    ELSE [b EXCEPT !.path = SubSeq(b.path, 1, LastSlash(b.path)) \o r]

\* b.join(s): s with a scheme is parsed on its own, unless the scheme is the
\* special scheme of b and fewer than two slashes follow it
UrlJoin(b, s) ==
    LET t == Trim(s)
        k == SchemeEnd(t)
        scheme == SubSeq(t, 1, k - 1)
        rest == SubSeq(t, k + 1, Len(t))
    IN  IF k = 0 THEN JoinRelative(b, t)
        ELSE IF /\ scheme \in SpecialSchemes
                /\ scheme = b.scheme
                /\ ~StartsWith(rest, <<"/", "/">>)
             THEN JoinRelative(b, rest)
        ELSE UrlParse(t)

\* Url::set_scheme(scheme).ok(): refused between special and non-special schemes
SetScheme(u, scheme) ==
    IF (scheme \in SpecialSchemes) # (u.scheme \in SpecialSchemes) THEN u
    ELSE [u EXCEPT !.scheme = scheme]

\* Url::set_host(host).ok(), host being Some (has_host) or None: refused on a
\* cannot-be-a-base URL, and when a special URL would lose its host
SetHost(u, has_host, host) ==
    IF u.opaque THEN u
    ELSE IF u.scheme \in SpecialSchemes /\ (~has_host \/ host = <<>>) THEN u
    ELSE [u EXCEPT !.has_host = has_host, !.host = host,
                   !.port = IF has_host THEN @ ELSE <<>>]

\* Url::set_port(Some(port)).ok(): refused on a URL without host
SetPort(u, port) ==
    IF u.opaque \/ ~u.has_host THEN u
    ELSE [u EXCEPT !.port = IF port = DefaultPort(u.scheme) THEN <<>> ELSE port]

\* Url::to_string()
UrlToString(u) ==
    u.scheme \o <<":">>
      \o (IF u.has_host
          THEN <<"/", "/">> \o u.host \o (IF u.port # <<>> THEN <<":">> \o u.port ELSE <<>>)
          ELSE <<>>)
      \o u.path

----------------------------------------------------------------------------
(* get_absolute_url                                                         *)

\* Ok(String), Err(anyhow!("Failed to parse base URL ...")), and the panic of unwrap()
ResolveOk(value) == [kind |-> "Ok", value |-> value]

ResolveErr == [kind |-> "InvalidBase", value |-> <<>>]

ResolvePanic == [kind |-> "Panic", value |-> <<>>]

\* lines 145-151: scheme, host and port of the base are set on a URL that lacks
\* a scheme or a host; each setter's failure is dropped by .ok()
Backfill(parsed_url, parsed_base) ==
    IF parsed_url.scheme = <<>> \/ ~parsed_url.has_host
    THEN LET u1 == SetScheme(parsed_url, parsed_base.scheme)
             u2 == SetHost(u1, parsed_base.has_host, parsed_base.host)
         IN  IF parsed_base.port # <<>> THEN SetPort(u2, parsed_base.port) ELSE u2
    ELSE parsed_url

\* url.starts_with("http")
IsHttpPrefixed(u) == StartsWith(u, Str_http)

\* mutant of get_absolute_url: the base is parsed before the two early returns
get_absolute_url_BaseFirst(base_url, rel_url) ==
    LET parsed_base == UrlParse(base_url)
        parsed_alone == UrlParse(rel_url)
        joined == UrlJoin(parsed_base, rel_url)
    IN  IF ~parsed_base.ok THEN ResolveErr
        ELSE IF Trim(rel_url) = <<>> THEN ResolveOk(<<>>)
        ELSE IF IsHttpPrefixed(rel_url) THEN ResolveOk(rel_url)
        ELSE IF parsed_alone.ok
             THEN ResolveOk(UrlToString(Backfill(parsed_alone, parsed_base)))
        ELSE IF ~joined.ok THEN ResolvePanic
        ELSE ResolveOk(UrlToString(Backfill(joined, parsed_base)))

\* mutant of get_absolute_url: a relative candidate is appended to the base string
get_absolute_url_Concat(base_url, rel_url) ==
    IF Trim(rel_url) = <<>> THEN ResolveOk(<<>>)
    ELSE IF IsHttpPrefixed(rel_url) THEN ResolveOk(rel_url)
    ELSE LET parsed_base == UrlParse(base_url)
             parsed_alone == UrlParse(rel_url)
         IN  IF ~parsed_base.ok THEN ResolveErr
             ELSE IF parsed_alone.ok
                  THEN ResolveOk(UrlToString(Backfill(parsed_alone, parsed_base)))
             ELSE ResolveOk(base_url \o Trim(rel_url))

\* get_absolute_url(base_url, url)
get_absolute_url(base_url, rel_url) ==
    IF Trim(rel_url) = <<>> THEN ResolveOk(<<>>)
    ELSE IF IsHttpPrefixed(rel_url) THEN ResolveOk(rel_url)
    ELSE LET parsed_base == UrlParse(base_url)
             parsed_alone == UrlParse(rel_url)
             joined == UrlJoin(parsed_base, rel_url)
         IN  IF ~parsed_base.ok THEN ResolveErr
             ELSE IF parsed_alone.ok
                  THEN ResolveOk(UrlToString(Backfill(parsed_alone, parsed_base)))
             ELSE IF ~joined.ok THEN ResolvePanic
             ELSE ResolveOk(UrlToString(Backfill(joined, parsed_base)))

\* the base URLs and the candidates callers pass
BaseUrls ==
    {<<"h", "t", "t", "p", "s", ":", "/", "/", "e">>,
     <<"h", "t", "t", "p", "s", ":", "/", "/", "e", "/">>,
     <<"h", "t", "t", "p", "s", ":", "/", "/", "e", "/", "b", "/">>,
     <<"h", "t", "t", "p", "s", ":", "/", "/", "e", "/", "b", "/", "f">>,
     <<"h", "t", "t", "p", ":", "/", "/", "e", ":", "8", "1", "/", "b", "/">>,
     <<"h", "t", "t", "p", ":", "/", "/", "e", ":", "8", "0", "/", "b">>,
     <<"e">>,
     <<>>,
     <<"m", "a", "i", "l", "t", "o", ":", "a">>,
     <<"h", "t", "t", "p", "s", ":", "/", "/">>}

CandidateUrls ==
    {<<>>,
     <<" ">>,
     <<" ", " ">>,
     <<"/", "p">>,
     <<"/", "p", "/", "q">>,
     <<"p">>,
     <<"p", "/", "q">>,
     <<"/">>,
     <<"/", "/", "b", "/", "p">>,
     <<"/", "/", "b">>,
     <<"/", "/", "b", ":", "8", "1", "/", "p">>,
     <<"/", "/">>,
     <<" ", "/", "p">>,
     <<"p", " ">>,
     <<"h", "t", "t", "p", ":", "/", "/", "b", "/", "p">>,
     <<"h", "t", "t", "p", "s", ":", "/", "/", "b", "/", "p">>,
     <<"h", "t", "t", "p">>,
     <<"h", "t", "t", "p", "f", "o", "o">>,
     <<"h", "t", "t", "p", ":", "/", "/">>,
     <<"h", "t", "t", "p", "s", ":", "p">>,
     <<" ", "h", "t", "t", "p", "s", ":", "/", "/", "b", "/", "p">>,
     <<" ", "h", "t", "t", "p", ":", "/", "/">>,
     <<"m", "a", "i", "l", "t", "o", ":", "x">>,
     <<"f", "o", "o", ":", "/", "p">>,
     <<"f", "t", "p", ":", "/", "/", "b", "/", "p">>}

NoResolve == [pc |-> "off", base_url |-> <<>>, url |-> <<>>, ret |-> [kind |-> "none", value |-> <<>>]]

\* the call get_absolute_url(resolver.base_url, resolver.url) runs and returns
Call_get_absolute_url ==
    /\ resolver.pc = "called"
    /\ resolver' = [resolver EXCEPT !.pc = "returned",
                                    !.ret = get_absolute_url(resolver.base_url, resolver.url)]
    /\ UNCHANGED <<CONFIG, pc, op, arg, url, attempt, response, result, events, outcomes>>

----------------------------------------------------------------------------
(* The specification                                                        *)

\* Config::new(): the fields network.rs reads, from the environment
Configs ==
    [max_retry : 0..MaxRetry,
     retry_wait_duration : RetryWaits,
     cloudflare_proxy : {DefaultCloudflareProxy},
     use_cf_bypass : BOOLEAN]

\* the state before any call: the calls in `live` may be made
InitWith(live) ==
    /\ CONFIG \in Configs
    /\ pc = [c \in Calls |-> IF c \in live THEN "idle" ELSE "off"]
    /\ op = [c \in Calls |-> "none"]
    /\ arg = [c \in Calls |-> <<>>]
    /\ url = [c \in Calls |-> <<>>]
    /\ attempt = [c \in Calls |-> 0]
    /\ response = [c \in Calls |-> NoResponse]
    /\ result = [c \in Calls |-> NoResult]
    /\ events = [c \in Calls |-> <<>>]
    /\ outcomes = [c \in Calls |-> <<>>]

Init == InitWith({MainCall}) /\ resolver = NoResolve

Next ==
    /\ UNCHANGED resolver
    /\ \E c \in Calls :
        \/ \E u \in TargetUrls : Call_html_get_page(c, u)
        \/ \E u \in TargetUrls : Call_html_get_page_cf(c, u)
        \/ \E u \in TargetUrls : Call_download_url(c, u)
        \/ SendErr(c)
        \/ \E s \in Statuses : StatusErr(c, s)
        \/ \E s \in Statuses, b \in Bodies : SendOk(c, s, b)
        \/ TextOk(c)
        \/ TextErr(c)
        \/ SleepDone(c)
        \/ DownloadSendErr(c)
        \/ \E s \in Statuses, b \in Bodies : DownloadSendOk(c, s, b)
        \/ DownloadBytesOk(c)
        \/ DownloadBytesErr(c)

Spec == Init /\ [][Next]_vars

\* get_absolute_url alone: one call with arguments from BaseUrls and CandidateUrls
InitResolve ==
    /\ InitWith({})
    /\ \E b \in BaseUrls, u \in CandidateUrls :
          resolver = [NoResolve EXCEPT !.pc = "called", !.base_url = b, !.url = u]

NextResolve == Call_get_absolute_url

SpecResolve == InitResolve /\ [][NextResolve]_vars

\* two fetches in flight at once: the futures of html_get_page and
\* html_get_page_cf polled in any order, against one target that fails or
\* answers 200 or 404
ConcUrl == UrlPlain

ConcStatuses == {200, 404}

ConcBody == "page1"

InitConc ==
    /\ InitWith(Calls)
    /\ CONFIG.retry_wait_duration = 1
    /\ resolver = NoResolve

NextConc ==
    /\ UNCHANGED resolver
    /\ \E c \in Calls :
        \/ Call_html_get_page(c, ConcUrl)
        \/ Call_html_get_page_cf(c, ConcUrl)
        \/ SendErr(c)
        \/ \E s \in ConcStatuses : StatusErr(c, s)
        \/ \E s \in ConcStatuses : SendOk(c, s, ConcBody)
        \/ TextOk(c)
        \/ TextErr(c)
        \/ SleepDone(c)

SpecConc == InitConc /\ [][NextConc]_vars

\* an await of call c completes: the send, the body read or the sleep
Completes(c) ==
    /\ UNCHANGED resolver
    /\ \/ SendErr(c)
       \/ \E s \in Statuses : StatusErr(c, s)
       \/ \E s \in Statuses, b \in Bodies : SendOk(c, s, b)
       \/ TextOk(c)
       \/ TextErr(c)
       \/ SleepDone(c)

\* every network operation and every sleep eventually completes
Fairness == \A c \in Calls : WF_vars(Completes(c))

SpecLive == Spec /\ Fairness

----------------------------------------------------------------------------
(* Views of a call used by the properties                                   *)

IsSend(e) == e.ev = "send"

IsSleep(e) == e.ev = "sleep"

\* the requests a call issued so far, and the sleeps it started so far
Sends(c) == SelectSeq(events[c], IsSend)

Sleeps(c) == SelectSeq(events[c], IsSleep)

\* a call of the retrying fetch, made directly or through html_get_page_cf
FetchCall(c) == op[c] \in {"html_get_page", "html_get_page_cf"}

Done(c) == pc[c] = "done"

\* the target answered attempt i of call c with a response of status code
Answered(c, i, code) == outcomes[c][i].class # "send" /\ outcomes[c][i].code = code

\* the target answered attempt i of call c with a 2xx response whose body read well
Succeeded(c, i) == outcomes[c][i].class = "ok" /\ outcomes[c][i].code \in 200..299

----------------------------------------------------------------------------
(* C1 *)

\* C1: with max_retry = N >= 1, a fetch whose target answers every request with
\* HTTP 500 never issues more than N requests and returns, after exactly N
\* requests, the Status error of code 500 (not a body, not RetriesExhausted).
C1_AlwaysFailingTarget ==
    \A c \in Calls :
        (/\ FetchCall(c)
         /\ CONFIG.max_retry >= 1
         /\ \A i \in 1..Len(outcomes[c]) : Answered(c, i, 500))
        => /\ Len(Sends(c)) <= CONFIG.max_retry
           /\ result[c].kind \in {"none", "Status"}
           /\ Done(c) => /\ Len(Sends(c)) = CONFIG.max_retry
                         /\ Len(outcomes[c]) = CONFIG.max_retry
                         /\ result[c].kind = "Status"
                         /\ result[c].code = 500
                         /\ result[c].attempts = CONFIG.max_retry

\* a fetch with N >= 2 returned after N answers of 500
C1_Witness ==
    \E c \in Calls :
        /\ FetchCall(c) /\ Done(c)
        /\ CONFIG.max_retry >= 2
        /\ Len(outcomes[c]) = CONFIG.max_retry
        /\ \A i \in 1..Len(outcomes[c]) : Answered(c, i, 500)

----------------------------------------------------------------------------
(* C2 *)

\* C2: with max_retry = N >= 1, a fetch whose target answers the first k < N
\* requests with HTTP 500 and request k+1 with a readable 2xx body has returned
\* that body and has issued exactly k+1 requests.
C2_TransientFailures ==
    \A c \in Calls :
        \A j \in 1..Len(outcomes[c]) :
            (/\ FetchCall(c)
             /\ CONFIG.max_retry >= 1
             /\ \A i \in 1..(j - 1) : Answered(c, i, 500)
             /\ Succeeded(c, j))
            => /\ j <= CONFIG.max_retry
               /\ Done(c)
               /\ result[c].kind = "Ok"
               /\ result[c].body = outcomes[c][j].body
               /\ Len(Sends(c)) = j

\* a fetch succeeded on its third request after two answers of 500
C2_Witness ==
    \E c \in Calls :
        /\ FetchCall(c) /\ Done(c)
        /\ Len(outcomes[c]) = 3
        /\ Answered(c, 1, 500) /\ Answered(c, 2, 500) /\ Succeeded(c, 3)

----------------------------------------------------------------------------
(* C3 *)

\* C3: every request of an html_get_page_cf call goes to the original URL when
\* use_cf_bypass is true; when it is false every request goes to the rewritten
\* proxy URL and none goes to the original URL.
C3_FlagPolarity ==
    \A c \in Calls :
        op[c] = "html_get_page_cf" =>
            \A i \in 1..Len(Sends(c)) :
                IF CONFIG.use_cf_bypass
                THEN Sends(c)[i].url = arg[c]
                ELSE /\ Sends(c)[i].url = CfUrl(arg[c])
                     /\ StartsWith(Sends(c)[i].url, CONFIG.cloudflare_proxy)
                     /\ Sends(c)[i].url # arg[c]

\* an html_get_page_cf call with use_cf_bypass false that issued two requests
C3_Witness ==
    \E c \in Calls :
        /\ op[c] = "html_get_page_cf"
        /\ ~CONFIG.use_cf_bypass
        /\ Len(Sends(c)) >= 2

----------------------------------------------------------------------------
(* C4 *)

\* the percent-encoding of the characters of the model's URLs that are reserved
\* (RFC 3986 gen-delims and sub-delims) or are the escape character itself
EncodedAs ==
    [ch \in {":", "/", "?", "#", "&", "=", "%"} |->
        CASE ch = ":" -> <<"%", "3", "A">>
          [] ch = "/" -> <<"%", "2", "F">>
          [] ch = "?" -> <<"%", "3", "F">>
          [] ch = "#" -> <<"%", "2", "3">>
          [] ch = "&" -> <<"%", "2", "6">>
          [] ch = "=" -> <<"%", "3", "D">>
          [] ch = "%" -> <<"%", "2", "5">>]

\* percentEncode of the wire contract: unreserved characters stay, the others
\* become %XX
RECURSIVE PercentEncode(_)
PercentEncode(u) ==
    IF u = <<>> THEN <<>>
    ELSE (IF Head(u) \in DOMAIN EncodedAs THEN EncodedAs[Head(u)] ELSE <<Head(u)>>)
            \o PercentEncode(Tail(u))

\* C4: when html_get_page_cf rewrites the target (use_cf_bypass false), every
\* request goes to cloudflare_proxy + "/html?url=" + percentEncode(original URL).
C4_ProxyUrlPercentEncoded ==
    \A c \in Calls :
        (op[c] = "html_get_page_cf" /\ ~CONFIG.use_cf_bypass) =>
            \A i \in 1..Len(Sends(c)) :
                Sends(c)[i].url
                    = CONFIG.cloudflare_proxy \o Str_html_url \o PercentEncode(arg[c])

----------------------------------------------------------------------------
(* C5 *)

\* C5 as stated: with max_retry >= 1, a fetch of a URL that does not parse makes
\* exactly one attempt, never sleeps, and returns a Network (builder) error.
C5_InvalidUrlFailsFast ==
    \A c \in Calls :
        (FetchCall(c) /\ ~UrlParses(url[c]) /\ CONFIG.max_retry >= 1)
        => /\ Len(Sends(c)) = 1
           /\ Sleeps(c) = <<>>
           /\ Done(c) => result[c].kind = "Network" /\ result[c].cause = "builder"

\* C5 as amended: with max_retry = N >= 1, a fetch of a URL that does not parse
\* fails on every attempt in the builder, is retried like any send failure, and
\* returns the Network (builder) error of the N-th attempt, not RetriesExhausted,
\* after exactly N attempts and N - 1 sleeps.
C5_InvalidUrlRetried ==
    \A c \in Calls :
        (FetchCall(c) /\ ~UrlParses(url[c]) /\ CONFIG.max_retry >= 1)
        => /\ \A i \in 1..Len(outcomes[c]) : outcomes[c][i].class = "send"
           /\ result[c].kind \in {"none", "Network"}
           /\ Done(c) => /\ result[c] = NetworkError(CONFIG.max_retry, "builder")
                         /\ Len(Sends(c)) = CONFIG.max_retry
                         /\ Len(Sleeps(c)) = CONFIG.max_retry - 1

\* a fetch of "http://" with N >= 2 returned
C5_Witness ==
    \E c \in Calls :
        /\ FetchCall(c) /\ Done(c)
        /\ url[c] = UrlInvalid
        /\ CONFIG.max_retry >= 2

----------------------------------------------------------------------------
(* C6 *)

\* C6: a fetch whose send step failed on every attempt it made returns the
\* Network error with attempts = max_retry, having made max_retry attempts with
\* one sleep of retry_wait_duration between each two consecutive attempts.
C6_SendFailsEveryAttempt ==
    \A c \in Calls :
        (/\ FetchCall(c) /\ Done(c)
         /\ outcomes[c] # <<>>
         /\ \A i \in 1..Len(outcomes[c]) : outcomes[c][i].class = "send")
        => /\ result[c].kind = "Network"
           /\ result[c].attempts = CONFIG.max_retry
           /\ Len(outcomes[c]) = CONFIG.max_retry
           /\ Len(events[c]) = 2 * CONFIG.max_retry - 1
           /\ \A i \in 1..Len(events[c]) :
                 events[c][i] = IF i % 2 = 1
                                THEN SendEvent(url[c])
                                ELSE SleepEvent(CONFIG.retry_wait_duration)

\* a fetch of a URL that parses returned after three failed sends
C6_Witness ==
    \E c \in Calls :
        /\ FetchCall(c) /\ Done(c)
        /\ UrlParses(url[c])
        /\ Len(outcomes[c]) = 3
        /\ \A i \in 1..3 : outcomes[c][i].class = "send"

----------------------------------------------------------------------------
(* C7 *)

\* C7: a fetch returns RetriesExhausted exactly when max_retry is 0; it then
\* has issued no request and reports attempts = max_retry.  With max_retry >= 1
\* no sequence of per-attempt outcomes ends in RetriesExhausted.
C7_ExhaustedIffZero ==
    \A c \in Calls :
        FetchCall(c) =>
            /\ Done(c) => (result[c].kind = "RetriesExhausted" <=> CONFIG.max_retry = 0)
            /\ ~Done(c) => result[c].kind = "none"
            /\ (Done(c) /\ CONFIG.max_retry = 0)
                  => /\ events[c] = <<>>
                     /\ outcomes[c] = <<>>
                     /\ result[c] = RetriesExhausted(CONFIG.max_retry, url[c])

\* a fetch with max_retry = 0 returned
C7_Witness ==
    \E c \in Calls : FetchCall(c) /\ Done(c) /\ CONFIG.max_retry = 0

----------------------------------------------------------------------------
(* C8 *)

\* the number of requests among the first i events of call c
SendsBefore(c, i) == Len(SelectSeq(SubSeq(events[c], 1, i), IsSend))

\* C8: no fetch starts a sleep after its max_retry-th attempt, whatever the
\* failure class, and a fetch that returned after a >= 1 attempts slept exactly
\* a - 1 times (a fetch that made no attempt never slept).
C8_LastAttemptNeverSleeps ==
    \A c \in Calls :
        FetchCall(c) =>
            /\ \A i \in 1..Len(events[c]) :
                  IsSleep(events[c][i]) => SendsBefore(c, i) < CONFIG.max_retry
            /\ pc[c] = "sleep" => attempt[c] + 1 < CONFIG.max_retry
            /\ Done(c) => Len(Sleeps(c)) = IF Len(Sends(c)) >= 1
                                           THEN Len(Sends(c)) - 1
                                           ELSE 0

\* a fetch returned an error from its third attempt, a body-read failure
C8_Witness ==
    \E c \in Calls :
        /\ FetchCall(c) /\ Done(c)
        /\ Len(outcomes[c]) = 3
        /\ outcomes[c][3].class = "body"
        /\ Len(Sleeps(c)) = 2

----------------------------------------------------------------------------
(* C9 *)

\* C9: once an attempt of a fetch got a 2xx status and read the body, that
\* attempt is the call's last: the call has returned that body and its last
\* event is that attempt's request, so no request and no sleep follows it;
\* a success on the first attempt leaves exactly one request.
C9_SuccessReturnsAtOnce ==
    \A c \in Calls :
        \A j \in 1..Len(outcomes[c]) :
            (FetchCall(c) /\ outcomes[c][j].class = "ok")
            => /\ j = Len(outcomes[c])
               /\ Done(c)
               /\ result[c] = OkResult(outcomes[c][j].body)
               /\ Len(Sends(c)) = j
               /\ Len(Sleeps(c)) = j - 1
               /\ IsSend(events[c][Len(events[c])])

\* a fetch succeeded on its second attempt with max_retry = 3, after a failure
C9_Witness ==
    \E c \in Calls :
        /\ FetchCall(c)
        /\ CONFIG.max_retry = 3
        /\ Len(outcomes[c]) = 2
        /\ outcomes[c][2].class = "ok"

----------------------------------------------------------------------------
(* C10 *)

\* C10: a download_url call issues exactly one request and never sleeps,
\* whatever max_retry is and however the attempt ends (failed send, any status,
\* failed or successful body read); it returns after that one attempt.
C10_DownloadSingleAttempt ==
    \A c \in Calls :
        op[c] = "download_url" =>
            /\ events[c] = <<SendEvent(arg[c])>>
            /\ Len(outcomes[c]) <= 1
            /\ Done(c) <=> Len(outcomes[c]) = 1

\* a download_url call returned a failed send although max_retry is 3
C10_Witness ==
    \E c \in Calls :
        /\ op[c] = "download_url" /\ Done(c)
        /\ CONFIG.max_retry = 3
        /\ outcomes[c][1].class = "send"

----------------------------------------------------------------------------
(* Views of the get_absolute_url call used by the properties                *)

Returned == resolver.pc = "returned"

\* s is an absolute URL: it parses, with a scheme and a non-empty host
IsAbsoluteUrlString(s) ==
    LET u == UrlParse(s)
    IN  u.ok /\ u.scheme # <<>> /\ u.has_host /\ u.host # <<>>

\* the base of the call is a valid absolute base: it parses, with a host
ValidBase == UrlParse(resolver.base_url).ok /\ UrlParse(resolver.base_url).has_host

\* c is a path and nothing else
IsPathOnly(c) ==
    /\ c # <<>>
    /\ \A i \in 1..Len(c) : c[i] \in Letters \cup Digits \cup {"/"}
    /\ ~StartsWith(c, <<"/", "/">>)

\* c is "//host..." with a host
IsProtocolRelative(c) ==
    /\ StartsWith(c, <<"/", "/">>)
    /\ Len(c) >= 3
    /\ c[3] \in Letters

\* scheme://host[:port] of the Url b
Origin(b) ==
    b.scheme \o <<":", "/", "/">> \o b.host
      \o (IF b.port # <<>> THEN <<":">> \o b.port ELSE <<>>)

\* what relative-reference resolution of c against the Url b yields: for
\* "//host/path" the scheme of b before c (with the path "/" when c has none),
\* for "/p" the origin of b before c, for "p" the origin and directory of b before c
ExpectedReference(b, c) ==
    IF IsProtocolRelative(c)
    THEN b.scheme \o <<":">> \o c \o (IF Find(c, {"/"}, 3) > Len(c) THEN <<"/">> ELSE <<>>)
    ELSE IF Head(c) = "/" THEN Origin(b) \o c
    ELSE Origin(b) \o SubSeq(b.path, 1, LastSlash(b.path)) \o c

----------------------------------------------------------------------------
(* C11 *)

\* C11: get_absolute_url returns either Ok with an absolute URL (a scheme and a
\* non-empty host) or the InvalidBase failure; it never returns Ok with another
\* string and never panics.
C11_AbsoluteOrFailure ==
    Returned =>
        \/ resolver.ret.kind = "InvalidBase"
        \/ resolver.ret.kind = "Ok" /\ IsAbsoluteUrlString(resolver.ret.value)

----------------------------------------------------------------------------
(* C12 *)

\* C12: get_absolute_url returns InvalidBase exactly when the candidate is not
\* empty after trimming, does not begin with "http", and the base does not
\* parse; a candidate that is empty after trimming yields "" and one that
\* begins with "http" yields the candidate unchanged, whatever the base is.
C12_RuleOrder ==
    Returned =>
        /\ resolver.ret.kind = "InvalidBase"
              <=> /\ Trim(resolver.url) # <<>>
                  /\ ~StartsWith(resolver.url, Str_http)
                  /\ ~UrlParse(resolver.base_url).ok
        /\ Trim(resolver.url) = <<>> => resolver.ret = ResolveOk(<<>>)
        /\ (Trim(resolver.url) # <<>> /\ StartsWith(resolver.url, Str_http))
              => resolver.ret = ResolveOk(resolver.url)

\* a call with a base that does not parse returned a candidate that begins with "http"
C12_Witness ==
    /\ Returned
    /\ ~UrlParse(resolver.base_url).ok
    /\ StartsWith(resolver.url, Str_http)
    /\ resolver.ret.kind = "Ok"

----------------------------------------------------------------------------
(* C13 *)

\* C13 as stated: for a valid absolute base, every path-only candidate and
\* every protocol-relative candidate is resolved as a relative reference.
C13_RelativeReference ==
    (/\ Returned /\ ValidBase
     /\ IsPathOnly(Trim(resolver.url)) \/ IsProtocolRelative(Trim(resolver.url)))
    => resolver.ret
          = ResolveOk(ExpectedReference(UrlParse(resolver.base_url), Trim(resolver.url)))

\* C13 as amended: the same, for candidates that do not begin with "http".
C13_RelativeReferenceNotHttp ==
    (/\ Returned /\ ValidBase
     /\ ~StartsWith(resolver.url, Str_http)
     /\ IsPathOnly(Trim(resolver.url)) \/ IsProtocolRelative(Trim(resolver.url)))
    => resolver.ret
          = ResolveOk(ExpectedReference(UrlParse(resolver.base_url), Trim(resolver.url)))

\* the call with base "http://e:81/b/" and candidate "p/q" returned
C13_Witness ==
    /\ Returned
    /\ resolver.base_url = <<"h", "t", "t", "p", ":", "/", "/", "e", ":", "8", "1", "/", "b", "/">>
    /\ resolver.url = <<"p", "/", "q">>
    /\ resolver.ret.kind = "Ok"

----------------------------------------------------------------------------
(* C14 *)

\* the requests of call c that have not been answered yet
InFlight(c) == Len(Sends(c)) - Len(outcomes[c])

\* C14: the events of a fetch are request, sleep, request, ...: at most one
\* request is in flight, none while the call sleeps, and every attempt but the
\* last one made ended in a failure that was followed by a sleep.
C14_AttemptsSequential ==
    \A c \in Calls :
        FetchCall(c) =>
            /\ \A i \in 1..Len(events[c]) : IsSend(events[c][i]) <=> i % 2 = 1
            /\ InFlight(c) \in {0, 1}
            /\ InFlight(c) = 1 <=> pc[c] \in {"send", "text"}
            /\ pc[c] = "sleep" => IsSleep(events[c][Len(events[c])])
            /\ \A i \in 1..(Len(Sends(c)) - 1) :
                  /\ i <= Len(outcomes[c])
                  /\ outcomes[c][i].class # "ok"

\* a fetch sleeps after its second failed attempt
C14_Witness ==
    \E c \in Calls :
        /\ FetchCall(c)
        /\ pc[c] = "sleep"
        /\ Len(outcomes[c]) = 2

----------------------------------------------------------------------------
(* C15 *)

\* C15: with max_retry = N >= 1, a fetch that returned an error made N attempts
\* and the error is that of attempt N alone: Network for a failed send, Status
\* with the status of that response, BodyRead for a failed body read, each with
\* attempts = N.
C15_FinalAttemptDecides ==
    \A c \in Calls :
        (FetchCall(c) /\ Done(c) /\ CONFIG.max_retry >= 1 /\ result[c].kind # "Ok")
        => /\ Len(outcomes[c]) = CONFIG.max_retry
           /\ result[c].attempts = CONFIG.max_retry
           /\ LET last == outcomes[c][Len(outcomes[c])]
              IN  /\ last.class = "send" => result[c].kind = "Network"
                  /\ last.class = "status"
                        => result[c].kind = "Status" /\ result[c].code = last.code
                  /\ last.class = "body" => result[c].kind = "BodyRead"
                  /\ last.class # "ok"

\* a fetch returned Status 404 after a failed send and a failed body read
C15_Witness ==
    \E c \in Calls :
        /\ FetchCall(c) /\ Done(c)
        /\ Len(outcomes[c]) = 3
        /\ outcomes[c][1].class = "send"
        /\ outcomes[c][2].class = "body"
        /\ outcomes[c][3] = Outcome("status", 404, "")

----------------------------------------------------------------------------
(* C18 *)

\* what html_get_page returns when run alone with max_retry = n against the
\* target u and the per-attempt outcomes outs
ResultAlone(n, u, outs) ==
    IF n = 0
    THEN RetriesExhausted(n, u)
    ELSE LET a == Len(outs)
             last == outs[a]
         IN  CASE last.class = "ok" -> OkResult(last.body)
               [] last.class = "send" -> NetworkError(a, SendErrorCause(u))
               [] last.class = "status" -> StatusError(last.code, a)
               [] OTHER -> BodyReadError(a)

\* C18: a call of html_get_page_cf issues at most max_retry requests, all to
\* the URL of its first request, and returns what html_get_page returns for
\* that URL and the outcomes of those requests.
C18_BypassAddsNoRetry ==
    \A c \in Calls :
        op[c] = "html_get_page_cf"
        => /\ Len(Sends(c)) <= CONFIG.max_retry
           /\ \A i \in 1..Len(Sends(c)) : Sends(c)[i].url = Sends(c)[1].url
           /\ Done(c) =>
                 /\ Len(outcomes[c]) = Len(Sends(c))
                 /\ result[c] = ResultAlone(CONFIG.max_retry, url[c], outcomes[c])

\* html_get_page_cf used all max_retry = 3 attempts, with the bypass on
C18_Witness ==
    \E c \in Calls :
        /\ op[c] = "html_get_page_cf" /\ Done(c)
        /\ CONFIG.use_cf_bypass
        /\ Len(Sends(c)) = 3
        /\ result[c].kind = "Status"

----------------------------------------------------------------------------
(* C19 *)

\* C19: every sleep of a fetch lasts CONFIG.retry_wait_duration seconds,
\* whatever its position and whatever failure came before it.
C19_FixedDelay ==
    \A c \in Calls :
        FetchCall(c) =>
            \A i \in 1..Len(events[c]) :
                IsSleep(events[c][i]) => events[c][i].secs = CONFIG.retry_wait_duration

\* a fetch slept twice, after a failed send and after a failed body read
C19_Witness ==
    \E c \in Calls :
        /\ FetchCall(c)
        /\ Len(Sleeps(c)) = 2
        /\ outcomes[c][1].class = "send"
        /\ outcomes[c][2].class = "body"

----------------------------------------------------------------------------
(* C20 *)

\* C20: a download that got a response and read its body returns Ok with that
\* body whatever the status; its only errors are the failed send and the
\* failed body read, and no status is ever classified.
C20_DownloadNoStatusClass ==
    \A c \in Calls :
        (op[c] = "download_url" /\ Done(c))
        => /\ Len(outcomes[c]) = 1
           /\ LET o == outcomes[c][1]
              IN  /\ o.class \in {"ok", "send", "body"}
                  /\ o.class = "ok" <=> result[c] = OkResult(o.body)
                  /\ o.class # "ok" <=> result[c].kind = "Reqwest"

\* a download returned the body of a 500 response
C20_Witness ==
    \E c \in Calls :
        /\ op[c] = "download_url" /\ Done(c)
        /\ outcomes[c][1] = Outcome("ok", 500, "page1")
        /\ result[c] = OkResult("page1")

----------------------------------------------------------------------------
(* C16 *)

\* the state of call c
CallState(c) ==
    <<pc[c], op[c], arg[c], url[c], attempt[c], response[c], result[c],
      events[c], outcomes[c]>>

\* a step that leaves CONFIG and the state of every call but one unchanged
OneCallSteps ==
    /\ CONFIG' = CONFIG
    /\ \E c \in Calls : \A d \in Calls \ {c} : CallState(d)' = CallState(d)

\* every call made at most max_retry requests, stopped at its first success,
\* and returned what it returns alone for the outcomes it met
EachAsAlone ==
    \A c \in Calls :
        FetchCall(c) =>
            /\ Len(Sends(c)) <= CONFIG.max_retry
            /\ \A i \in 1..(Len(outcomes[c]) - 1) : outcomes[c][i].class # "ok"
            /\ Done(c) =>
                  /\ result[c] = ResultAlone(CONFIG.max_retry, url[c], outcomes[c])
                  /\ CONFIG.max_retry >= 1 =>
                        \/ Len(outcomes[c]) = CONFIG.max_retry
                        \/ outcomes[c][Len(outcomes[c])].class = "ok"

\* C16: under every interleaving of two fetches, a step changes the state of
\* one call only and never CONFIG, and each call makes at most max_retry
\* requests and returns what it returns when run alone against the same
\* per-attempt outcomes.
C16_ConcurrentCallsIndependent == []EachAsAlone /\ [][OneCallSteps]_vars

\* both calls are in flight: one sleeps after its first failure while the
\* other reads the body of its third attempt
C16_Witness ==
    /\ pc["c1"] = "sleep" /\ attempt["c1"] = 0
    /\ pc["c2"] = "text" /\ attempt["c2"] = 2

----------------------------------------------------------------------------
(* C17 *)

\* a fetch has made at most max_retry attempts, failures of all classes
\* counted together, and a fetch that is done has returned a body or an error
WithinBudget ==
    \A c \in Calls :
        FetchCall(c) =>
            /\ Len(Sends(c)) <= CONFIG.max_retry
            /\ Len(outcomes[c]) <= CONFIG.max_retry
            /\ Done(c) => result[c] # NoResult

\* C17: when every send, body read and sleep eventually completes, every fetch
\* eventually returns, after at most max_retry attempts whatever the mix of
\* send errors, statuses that are not 2xx and body-read errors.
C17_EveryFetchTerminates ==
    /\ []WithinBudget
    /\ \A c \in Calls : FetchCall(c) ~> Done(c)

\* a fetch returned after one failure of each class
C17_Witness ==
    \E c \in Calls :
        /\ FetchCall(c) /\ Done(c)
        /\ Len(outcomes[c]) = 3
        /\ outcomes[c][1].class = "send"
        /\ outcomes[c][2].class = "status"
        /\ outcomes[c][3].class = "body"
        /\ result[c] = BodyReadError(3)

====
